---- MODULE Spec2Model ----
(***************************************************************************)
(* The response decoder of src/async_impl/decoder.rs: Decoder::detect,     *)
(* Decoder::empty, Decoder::poll_next, Pending::poll and                   *)
(* BodyBytes::poll_next, over a HeaderMap and a Body that delivers its     *)
(* items as the transport makes them available.                            *)
(***************************************************************************)
EXTENDS Integers, Sequences, FiniteSets, TLC

VARIABLES
    headers,     \* the HeaderMap handed to detect (mutated by it)
    headers0,    \* the HeaderMap as it was before detect (history)
    check_gzip,  \* the flag handed to detect
    input,       \* the items of the Body handed to detect (history)
    avail,       \* how many events of that Body the transport has delivered
    ctor,        \* "none" | "detect" | "empty": how the decoder was built
    start,       \* the variant the decoder was built in (history)
    inner,       \* Decoder.inner
    out,         \* the Ready results poll_next has returned, in order
    last,        \* the result of the latest poll_next call
    call         \* the latest poll_next call: the variant it found, its
                 \* re-dispatches, the body items it took (history)

vars == <<headers, headers0, check_gzip, input, avail, ctor, start, inner,
          out, last, call>>

(* ------------------------------ bounds -------------------------------- *)
MaxVals == 2      \* values one header name carries
MaxLen == 2       \* bytes of an uncompressed message
MaxChunks == 2    \* data chunks a body is split into
MaxErrs == 1      \* transport errors a body yields

(* ------------------------------ helpers ------------------------------- *)
RECURSIVE SeqsUpTo(_, _)
SeqsUpTo(S, n) ==
    IF n = 0 THEN {<<>>}
    ELSE LET R == SeqsUpTo(S, n - 1)
         IN  R \cup {Append(s, x) : s \in {r \in R : Len(r) = n - 1}, x \in S}

IsPrefix(s, t) == Len(s) <= Len(t) /\ SubSeq(t, 1, Len(s)) = s

Min(a, b) == IF a < b THEN a ELSE b

Max(a, b) == IF a < b THEN b ELSE a

(* ------------------------------ HeaderMap ----------------------------- *)
CONTENT_ENCODING == "content-encoding"

CONTENT_LENGTH == "content-length"

TRANSFER_ENCODING == "transfer-encoding"

CONTENT_TYPE == "content-type"

HeaderNames == {CONTENT_ENCODING, CONTENT_LENGTH, TRANSFER_ENCODING, CONTENT_TYPE}

\* HeaderMap::get_all(name).iter().any(|v| v == value)
any_eq(h, name, value) == \E i \in 1..Len(h[name]) : h[name][i] = value

\* HeaderMap::get(name): the first value of the name, if any
contains_key(h, name) == h[name] # <<>>

get(h, name) == h[name][1]

\* HeaderMap::remove(name): every value of the name goes
remove(h, name) == [h EXCEPT ![name] = <<>>]

(* ------------------------------ errors -------------------------------- *)
NoErr == [ty |-> "none", kind |-> "none", detail |-> "none"]

\* the error a Body item carries (the transport's, wrapped in crate::Error)
TransportErr == [ty |-> "Error", kind |-> "transport", detail |-> "none"]

\* Error::into_io: the crate's error wrapped in an io::Error
into_io(e) == [ty |-> "io", kind |-> "Other", detail |-> e.kind]

\* the io::Error values of the decompressor
InvalidData == [ty |-> "io", kind |-> "InvalidData", detail |-> "none"]

UnexpectedEof == [ty |-> "io", kind |-> "UnexpectedEof", detail |-> "none"]

\* crate::error::from_io: an io::Error as the decoder's error type, the
\* cause kept
from_io(e) ==
    [ty |-> "Error", kind |-> "decode",
     detail |-> IF e.kind = "Other" THEN e.detail ELSE e.kind]

(* --------------------------- poll results ----------------------------- *)
PendingR == [t |-> "pending", b |-> <<>>, e |-> NoErr]

NoneR == [t |-> "none", b |-> <<>>, e |-> NoErr]

DataR(b) == [t |-> "data", b |-> b, e |-> NoErr]

ErrR(e) == [t |-> "err", b |-> <<>>, e |-> e]

InitR == [t |-> "init", b |-> <<>>, e |-> NoErr]

(* -------------------------------- Body -------------------------------- *)
DataItem(b) == [t |-> "data", b |-> b]

ErrItem == [t |-> "err", b |-> <<>>]

\* a Body over the transport's items, none consumed yet
Body_wire(items) == [kind |-> "wire", items |-> items, pos |-> 0]

\* Body::empty(): no items, end-of-stream at once
Body_empty == [kind |-> "empty", items |-> <<>>, pos |-> 0]

\* <Body as Stream>::poll_next: the next item if the transport has delivered
\* it, end-of-stream once the transport has delivered that, else not ready
Body_poll_next(b, av) ==
    IF b.kind = "empty" THEN [r |-> NoneR, b |-> b]
    ELSE IF b.pos < Len(b.items)
    THEN IF b.pos < av
         THEN [r |-> IF b.items[b.pos + 1].t = "data"
                     THEN DataR(b.items[b.pos + 1].b)
                     ELSE ErrR(TransportErr),
               b |-> [b EXCEPT !.pos = @ + 1]]
         ELSE [r |-> PendingR, b |-> b]
    ELSE IF av > Len(b.items)
         THEN [r |-> NoneR, b |-> b]
         ELSE [r |-> PendingR, b |-> b]

(* ------------------------------ BodyBytes ----------------------------- *)
\* mutant: the end of the body is reported as not ready
BodyBytes_map_noneIsPending(p) ==
    CASE p.r.t = "pending" -> [r |-> PendingR, b |-> p.b]
      [] p.r.t = "data" -> [r |-> DataR(p.r.b), b |-> p.b]
      [] p.r.t = "err" -> [r |-> ErrR(into_io(p.r.e)), b |-> p.b]
      [] OTHER -> [r |-> PendingR, b |-> p.b]

\* the match of BodyBytes::poll_next on the Body's result p
BodyBytes_map(p) ==
    CASE p.r.t = "pending" -> [r |-> PendingR, b |-> p.b]
      [] p.r.t = "data" -> [r |-> DataR(p.r.b), b |-> p.b]
      [] p.r.t = "err" -> [r |-> ErrR(into_io(p.r.e)), b |-> p.b]
      [] OTHER -> [r |-> NoneR, b |-> p.b]

\* <BodyBytes as Stream>::poll_next
BodyBytes_poll_next(b, av) == BodyBytes_map(Body_poll_next(b, av))

(* --------------------- Peekable<BodyBytes> (Fuse) --------------------- *)
\* StreamExt::peekable
peekable(b) == [body |-> b, peeked |-> <<>>, done |-> FALSE]

\* Fuse: end-of-stream of the inner stream is remembered
Fuse_after(pk, p) ==
    [r |-> p.r, pk |-> [pk EXCEPT !.body = p.b, !.done = (p.r.t = "none")]]

\* Fuse::poll_next
Fuse_poll_next(pk, av) ==
    IF pk.done THEN [r |-> NoneR, pk |-> pk]
    ELSE Fuse_after(pk, BodyBytes_poll_next(pk.body, av))

\* mutant: peek hands out the item without keeping it
peek_store_forgets(p) == p

\* Peekable::peek keeps the item it got in the peeked slot
peek_store(p) ==
    IF p.r.t \in {"data", "err"}
    THEN [r |-> p.r, pk |-> [p.pk EXCEPT !.peeked = <<p.r>>]]
    ELSE p

\* Peekable::peek
peek(pk, av) ==
    IF pk.peeked # <<>> THEN [r |-> pk.peeked[1], pk |-> pk]
    ELSE peek_store(Fuse_poll_next(pk, av))

\* Peekable::poll_next: the peeked item first
Peekable_poll_next(pk, av) ==
    IF pk.peeked # <<>>
    THEN [r |-> pk.peeked[1], pk |-> [pk EXCEPT !.peeked = <<>>]]
    ELSE Fuse_poll_next(pk, av)

(* ------------------- the gzip format, as modelled ---------------------- *)
\* A member is: the two magic bytes, one literal code per message byte
\* (the byte plus LitBase), the end-of-block code, then the trailer: the
\* checksum of the message and its length.
ID1 == 31

ID2 == 139

LitBase == 10

EOB == 0

CrcMod == 8

Byte == {1, 2}

CrcStep(c, b) == (3 * c + b) % CrcMod

RECURSIVE Crc(_)
Crc(m) == IF m = <<>> THEN 0 ELSE CrcStep(Crc(SubSeq(m, 1, Len(m) - 1)), m[Len(m)])

\* the compressor the peer ran
Compress(m) ==
    <<ID1, ID2>> \o [i \in 1..Len(m) |-> m[i] + LitBase] \o <<EOB, Crc(m), Len(m)>>

\* GzipDecoder::new
GzNew == [phase |-> "id1", crc |-> 0, n |-> 0]

GzFail(gz) == [gz EXCEPT !.phase = "failed"]

GzBad(gz) == [gz |-> GzFail(gz), out |-> <<>>, ok |-> FALSE]

\* the decompressor fed one input chunk c byte by byte: its state after the
\* chunk, the bytes it decoded from the chunk, and whether the chunk was
\* well formed so far
RECURSIVE Feed(_, _, _)
Feed(gz, c, acc) ==
    IF c = <<>> \/ gz.phase = "done"
    THEN [gz |-> gz, out |-> acc, ok |-> TRUE]
    ELSE CASE gz.phase = "id1" ->
                IF c[1] = ID1 THEN Feed([gz EXCEPT !.phase = "id2"], Tail(c), acc)
                ELSE GzBad(gz)
           [] gz.phase = "id2" ->
                IF c[1] = ID2 THEN Feed([gz EXCEPT !.phase = "deflate"], Tail(c), acc)
                ELSE GzBad(gz)
           [] gz.phase = "deflate" ->
                IF c[1] = EOB THEN Feed([gz EXCEPT !.phase = "crc"], Tail(c), acc)
                ELSE IF c[1] - LitBase \in Byte
                THEN Feed([gz EXCEPT !.crc = CrcStep(@, c[1] - LitBase), !.n = @ + 1],
                          Tail(c), Append(acc, c[1] - LitBase))
                ELSE GzBad(gz)
           [] gz.phase = "crc" ->
                IF c[1] = gz.crc THEN Feed([gz EXCEPT !.phase = "isize"], Tail(c), acc)
                ELSE GzBad(gz)
           [] gz.phase = "isize" ->
                IF c[1] = gz.n THEN Feed([gz EXCEPT !.phase = "done"], Tail(c), acc)
                ELSE GzBad(gz)
           [] OTHER -> GzBad(gz)

RECURSIVE GzipDecoder_poll_next(_, _, _)

\* the decompressor after the input chunk it read was fed (f): an error, the
\* decoded bytes, or on to the next input chunk
Gz_fed(pk, f, av) ==
    IF ~f.ok THEN [r |-> ErrR(InvalidData), pk |-> pk, gz |-> f.gz]
    ELSE IF f.out # <<>> THEN [r |-> DataR(f.out), pk |-> pk, gz |-> f.gz]
    ELSE GzipDecoder_poll_next(pk, f.gz, av)

\* the decompressor on the result p of polling its input stream
Gz_read(p, gz, av) ==
    CASE p.r.t = "pending" -> [r |-> PendingR, pk |-> p.pk, gz |-> gz]
      [] p.r.t = "err" -> [r |-> p.r, pk |-> p.pk, gz |-> gz]
      [] p.r.t = "none" -> [r |-> ErrR(UnexpectedEof), pk |-> p.pk, gz |-> GzFail(gz)]
      [] OTHER -> Gz_fed(p.pk, Feed(gz, p.r.b, <<>>), av)

\* <GzipDecoder<Peekable<BodyBytes>> as Stream>::poll_next: reads input
\* chunks until one yields decoded bytes, or the input ends or fails
GzipDecoder_poll_next(pk, gz, av) ==
    IF gz.phase = "done" THEN [r |-> NoneR, pk |-> pk, gz |-> gz]
    ELSE Gz_read(Peekable_poll_next(pk, av), gz, av)

(* ------------------------------- Decoder ------------------------------ *)
Inner_PlainText(body) ==
    [tag |-> "PlainText", body |-> body, pk |-> peekable(Body_empty), gz |-> GzNew]

Inner_Gzip(pk) ==
    [tag |-> "Gzip", body |-> Body_empty, pk |-> pk, gz |-> GzNew]

Inner_Pending(pk) ==
    [tag |-> "Pending", body |-> Body_empty, pk |-> pk, gz |-> GzNew]

NoInner == [tag |-> "None", body |-> Body_empty, pk |-> peekable(Body_empty), gz |-> GzNew]

\* mutant: the body of one zero-length chunk the doc comment speaks of
empty_zeroChunk == Inner_PlainText(Body_wire(<<DataItem(<<>>)>>))

\* Decoder::empty
empty == Inner_PlainText(Body_empty)

\* Decoder::plain_text
plain_text(body) == Inner_PlainText(body)

\* Decoder::gzip
gzip(body) == Inner_Pending(peekable(body))

\* mutant: only the first Content-Encoding value is looked at
content_encoding_gzip_first(h) ==
    contains_key(h, CONTENT_ENCODING) /\ get(h, CONTENT_ENCODING) = "gzip"

\* detect: any Content-Encoding value is "gzip"
content_encoding_gzip(h) == any_eq(h, CONTENT_ENCODING, "gzip")

\* mutant: no Content-Length: 0 override
is_gzip_noOverride(h) ==
    content_encoding_gzip(h) \/ any_eq(h, TRANSFER_ENCODING, "gzip")

\* detect: is_gzip, after the Content-Length: 0 override
is_gzip(h) ==
    /\ content_encoding_gzip(h) \/ any_eq(h, TRANSFER_ENCODING, "gzip")
    /\ ~(contains_key(h, CONTENT_LENGTH) /\ get(h, CONTENT_LENGTH) = "0")

\* mutant: Content-Length is left in place
detect_headers_keepsLength(h) ==
    IF content_encoding_gzip(h) THEN remove(h, CONTENT_ENCODING) ELSE h

\* detect: the headers it leaves
detect_headers(h) ==
    IF content_encoding_gzip(h)
    THEN remove(remove(h, CONTENT_ENCODING), CONTENT_LENGTH)
    ELSE h

\* mutant: the headers go whenever either header says gzip
detect_anyGzip(h, body, check) ==
    IF ~check THEN [headers |-> h, inner |-> plain_text(body)]
    ELSE [headers |-> IF is_gzip_noOverride(h)
                      THEN remove(remove(h, CONTENT_ENCODING), CONTENT_LENGTH)
                      ELSE h,
          inner |-> IF is_gzip(h) THEN gzip(body) ELSE plain_text(body)]

\* mutant: the flag is not looked at
detect_ignoresFlag(h, body, check) ==
    [headers |-> detect_headers(h),
     inner |-> IF is_gzip(h) THEN gzip(body) ELSE plain_text(body)]

\* Decoder::detect: the headers it leaves and the decoder it returns
detect(h, body, check) ==
    IF ~check THEN [headers |-> h, inner |-> plain_text(body)]
    ELSE [headers |-> detect_headers(h),
          inner |-> IF is_gzip(h) THEN gzip(body) ELSE plain_text(body)]

\* mutant: the error is returned but stays in the peeked slot
Pending_take_keepsPeeked(q) ==
    CASE q.r.t = "pending" -> [r |-> "pending", inner |-> Inner_Pending(q.pk), e |-> NoErr]
      [] q.r.t = "err" ->
           [r |-> "err", inner |-> Inner_Pending([q.pk EXCEPT !.peeked = <<q.r>>]),
            e |-> q.r.e]
      [] OTHER -> [r |-> "panic", inner |-> Inner_Pending(q.pk), e |-> NoErr]

\* mutant: the error is taken from the stream and dropped
Pending_take_swallows(q) ==
    CASE q.r.t = "pending" -> [r |-> "pending", inner |-> Inner_Pending(q.pk), e |-> NoErr]
      [] q.r.t = "err" -> [r |-> "pending", inner |-> Inner_Pending(q.pk), e |-> NoErr]
      [] OTHER -> [r |-> "panic", inner |-> Inner_Pending(q.pk), e |-> NoErr]

\* Pending::poll, the Some(Err(_)) arm: the real poll q that moves the error
\* out, with expect and unwrap_err
Pending_take(q) ==
    CASE q.r.t = "pending" -> [r |-> "pending", inner |-> Inner_Pending(q.pk), e |-> NoErr]
      [] q.r.t = "err" -> [r |-> "err", inner |-> Inner_Pending(q.pk), e |-> q.r.e]
      [] OTHER -> [r |-> "panic", inner |-> Inner_Pending(q.pk), e |-> NoErr]

\* mutant: the peeked item does not reach the decompressor
Pending_resolve_gzip_dropsPeeked(pk) ==
    [r |-> "ok", inner |-> Inner_Gzip([pk EXCEPT !.peeked = <<>>]), e |-> NoErr]

\* mutant: the resolver completes with the resolving variant again, over
\* the rest of the stream
Pending_resolve_gzip_viaPending(pk) ==
    [r |-> "ok", inner |-> Inner_Pending([pk EXCEPT !.peeked = <<>>]), e |-> NoErr]

\* mutant: the decompressor's stream hands out the peeked item and then
\* reads the same item from the body again
Pending_resolve_gzip_rereads(pk) ==
    [r |-> "ok",
     inner |-> Inner_Gzip([pk EXCEPT !.body.pos = Max(@ - 1, 0)]),
     e |-> NoErr]

\* Pending::poll, the Some(Ok(_)) arm: mem::replace takes the peekable
\* stream out and the decompressor is built over it
Pending_resolve_gzip(pk) == [r |-> "ok", inner |-> Inner_Gzip(pk), e |-> NoErr]

\* mutant: a decompressor is built over the ended stream
Pending_resolve_none_gzip(pk) == [r |-> "ok", inner |-> Inner_Gzip(pk), e |-> NoErr]

\* Pending::poll, the None arm
Pending_resolve_none(pk) ==
    [r |-> "ok", inner |-> Inner_PlainText(Body_empty), e |-> NoErr]

\* mutant: a peeked data chunk leaves the resolver not ready
Pending_peeked_stalls(p, av) ==
    CASE p.r.t = "pending" -> [r |-> "pending", inner |-> Inner_Pending(p.pk), e |-> NoErr]
      [] p.r.t = "err" -> Pending_take(Peekable_poll_next(p.pk, av))
      [] p.r.t = "none" -> Pending_resolve_none(p.pk)
      [] OTHER -> [r |-> "pending", inner |-> Inner_Pending(p.pk), e |-> NoErr]

\* Pending::poll on the result p of the peek
Pending_peeked(p, av) ==
    CASE p.r.t = "pending" -> [r |-> "pending", inner |-> Inner_Pending(p.pk), e |-> NoErr]
      [] p.r.t = "err" -> Pending_take(Peekable_poll_next(p.pk, av))
      [] p.r.t = "none" -> Pending_resolve_none(p.pk)
      [] OTHER -> Pending_resolve_gzip(p.pk)

\* <Pending as Future>::poll: r is "pending", "err" (with e), "ok" (with the
\* new variant) or "panic"
Pending_poll(pk, av) == Pending_peeked(peek(pk, av), av)

\* mutant: the plain body's errors go through the io::Error conversion
PlainText_result_viaIo(in, p) ==
    [r |-> IF p.r.t = "err" THEN ErrR(from_io(into_io(p.r.e))) ELSE p.r,
     inner |-> [in EXCEPT !.body = p.b]]

\* poll_next, the PlainText arm, on the Body's result p
PlainText_result(in, p) == [r |-> p.r, inner |-> [in EXCEPT !.body = p.b]]

poll_PlainText(in, av) == PlainText_result(in, Body_poll_next(in.body, av))

\* mutant: the decompressor's error ends the stream silently
Gzip_result_swallowsErr(in, p) ==
    [r |-> CASE p.r.t = "data" -> DataR(p.r.b)
             [] p.r.t = "err" -> NoneR
             [] OTHER -> p.r,
     inner |-> [in EXCEPT !.pk = p.pk, !.gz = p.gz]]

\* mutant: at the end of the member the decoder goes back to resolving
Gzip_result_rearm(in, p) ==
    [r |-> CASE p.r.t = "data" -> DataR(p.r.b)
             [] p.r.t = "err" -> ErrR(from_io(p.r.e))
             [] OTHER -> p.r,
     inner |-> IF p.r.t = "none" THEN Inner_Pending(p.pk)
               ELSE [in EXCEPT !.pk = p.pk, !.gz = p.gz]]

\* poll_next, the Gzip arm, on the decompressor's result p
Gzip_result(in, p) ==
    [r |-> CASE p.r.t = "data" -> DataR(p.r.b)
             [] p.r.t = "err" -> ErrR(from_io(p.r.e))
             [] OTHER -> p.r,
     inner |-> [in EXCEPT !.pk = p.pk, !.gz = p.gz]]

poll_Gzip(in, av) == Gzip_result(in, GzipDecoder_poll_next(in.pk, in.gz, av))

PanicR == [t |-> "panic", b |-> <<>>, e |-> NoErr]

WithHops(p, hops) == [r |-> p.r, inner |-> p.inner, hops |-> hops]

RECURSIVE poll_next(_, _, _)

\* mutant: the new variant is stored and the call returns not ready, without
\* polling it
poll_Pending_noRedispatch(f, av, hops) ==
    CASE f.r = "ok" -> [r |-> PendingR, inner |-> f.inner, hops |-> hops]
      [] f.r = "err" -> [r |-> ErrR(from_io(f.e)), inner |-> f.inner, hops |-> hops]
      [] f.r = "pending" -> [r |-> PendingR, inner |-> f.inner, hops |-> hops]
      [] OTHER -> [r |-> PanicR, inner |-> f.inner, hops |-> hops]

\* poll_next, the Pending arm, on the future's result f: the new variant
\* replaces the old and poll_next is called again
poll_Pending(f, av, hops) ==
    CASE f.r = "ok" -> poll_next(f.inner, av, hops + 1)
      [] f.r = "err" -> [r |-> ErrR(from_io(f.e)), inner |-> f.inner, hops |-> hops]
      [] f.r = "pending" -> [r |-> PendingR, inner |-> f.inner, hops |-> hops]
      [] OTHER -> [r |-> PanicR, inner |-> f.inner, hops |-> hops]

\* <Decoder as Stream>::poll_next: the result and the decoder afterwards;
\* hops counts the re-dispatches of the call
poll_next(in, av, hops) ==
    CASE in.tag = "Pending" -> poll_Pending(Pending_poll(in.pk, av), av, hops)
      [] in.tag = "PlainText" -> WithHops(poll_PlainText(in, av), hops)
      [] OTHER -> WithHops(poll_Gzip(in, av), hops)

(* ------------------------- the inputs explored ------------------------ *)
Msgs == SeqsUpTo(Byte, MaxLen)

\* a byte no position of a member admits
BadByte == 99

Subst(w, i, x) == [w EXCEPT ![i] = x]

OtherLit(x) == IF x = LitBase + 1 THEN LitBase + 2 ELSE LitBase + 1

ValidWires == {Compress(m) : m \in Msgs}

\* members with one byte replaced (by a byte invalid anywhere, or a literal
\* by the other literal), and members cut short
CorruptWires ==
    UNION {LET w == Compress(m)
           IN  {Subst(w, i, BadByte) : i \in 1..Len(w)}
               \cup {Subst(w, i, OtherLit(w[i])) : i \in 3..(2 + Len(m))}
               \cup {SubSeq(w, 1, k) : k \in 1..(Len(w) - 1)}
           : m \in Msgs}

\* the ways to cut w into exactly k chunks, empty chunks allowed
RECURSIVE Splits(_, _)
Splits(w, k) ==
    IF k = 0 THEN (IF w = <<>> THEN {<<>>} ELSE {})
    ELSE UNION {{<<DataItem(SubSeq(w, 1, i))>> \o s
                 : s \in Splits(SubSeq(w, i + 1, Len(w)), k - 1)}
                : i \in 0..Len(w)}

Chunkings(w) == UNION {Splits(w, k) : k \in 0..MaxChunks}

InsertErr(items) ==
    {SubSeq(items, 1, i) \o <<ErrItem>> \o SubSeq(items, i + 1, Len(items))
     : i \in 0..Len(items)}

RECURSIVE WithErrs(_, _)
WithErrs(S, n) ==
    IF n = 0 THEN S
    ELSE LET R == WithErrs(S, n - 1)
         IN  R \cup UNION {InsertErr(items) : items \in R}

\* one message of each length: 1, 2, 1, ...
Canon == {[i \in 1..n |-> 2 - (i % 2)] : n \in 0..MaxLen}

\* well-formed bodies however chunked; corrupted and cut ones however
\* chunked; bodies the transport fails in
Bodies ==
    UNION {Chunkings(w) : w \in {<<>>} \cup ValidWires \cup CorruptWires}
    \cup WithErrs(UNION {Chunkings(Compress(m)) : m \in Canon} \cup {<<>>}, MaxErrs)

EncodingValues == {"gzip", "br"}

LengthValues == {"0", "120"}

TypeValues == {"text/plain"}

AllHeaders ==
    {[n \in HeaderNames |->
        CASE n = CONTENT_ENCODING -> ce
          [] n = TRANSFER_ENCODING -> te
          [] n = CONTENT_LENGTH -> cl
          [] OTHER -> ct]
     : ce \in SeqsUpTo(EncodingValues, MaxVals),
       te \in SeqsUpTo(EncodingValues, MaxVals),
       cl \in SeqsUpTo(LengthValues, MaxVals),
       ct \in {<<v>> : v \in TypeValues}}

Hdr(ce, te, cl) ==
    [n \in HeaderNames |->
        CASE n = CONTENT_ENCODING -> ce
          [] n = TRANSFER_ENCODING -> te
          [] n = CONTENT_LENGTH -> cl
          [] OTHER -> <<"text/plain">>]

\* a gzip response with its length, and a plain one
SampleHeaders == {Hdr(<<"gzip">>, <<>>, <<"120">>), Hdr(<<>>, <<>>, <<"120">>)}

SampleBodies == {<<>>, <<DataItem(Compress(<<1>>))>>}

(* ------------------------------- actions ------------------------------ *)
\* the latest poll_next call: the variant it found, the events the transport
\* had delivered by then, its re-dispatches, the items it took from the body
NoCall == [from |-> "None", av |-> 0, hops |-> 0, took |-> 0]

InitWith(H, C, B) ==
    /\ headers \in H
    /\ headers0 = headers
    /\ check_gzip \in C
    /\ input \in B
    /\ avail = 0
    /\ ctor = "none"
    /\ start = "None"
    /\ inner = NoInner
    /\ out = <<>>
    /\ last = InitR
    /\ call = NoCall

\* Decoder::detect(&mut headers, body, check_gzip)
Detect ==
    /\ ctor = "none"
    /\ headers' = detect(headers, Body_wire(input), check_gzip).headers
    /\ inner' = detect(headers, Body_wire(input), check_gzip).inner
    /\ start' = inner'.tag
    /\ ctor' = "detect"
    /\ UNCHANGED <<headers0, check_gzip, input, avail, out, last, call>>

\* Decoder::empty()
Empty ==
    /\ ctor = "none"
    /\ inner' = empty
    /\ start' = empty.tag
    /\ ctor' = "empty"
    /\ UNCHANGED <<headers, headers0, check_gzip, input, avail, out, last, call>>

\* the transport delivers the body's next event (an item, or end-of-stream)
Arrive ==
    /\ avail <= Len(input)
    /\ avail' = avail + 1
    /\ UNCHANGED <<headers, headers0, check_gzip, input, ctor, start, inner, out,
                   last, call>>

\* the consumer stops at end-of-stream, and after an error of the
\* decompressor, whose state is then unspecified
CanPoll ==
    /\ ctor # "none"
    /\ last.t \notin {"none", "panic"}
    /\ ~(last.t = "err" /\ inner.tag = "Gzip")

\* the items of the transport's body a decoder has taken out of it (an item
\* in the peeked slot is not yet taken)
Taken(in) ==
    IF in.tag = "PlainText" THEN (IF in.body.kind = "wire" THEN in.body.pos ELSE 0)
    ELSE IF in.pk.body.kind = "wire" THEN in.pk.body.pos - Len(in.pk.peeked)
    ELSE 0

\* the record of a call whose outcome is p
PolledCall(p) ==
    [from |-> inner.tag, av |-> avail, hops |-> p.hops,
     took |-> IF p.inner.tag = "PlainText" /\ inner.tag = "Pending"
              THEN 0 ELSE Taken(p.inner) - Taken(inner)]

Polled(p) ==
    /\ inner' = p.inner
    /\ last' = p.r
    /\ out' = IF p.r.t = "pending" THEN out ELSE Append(out, p.r)
    /\ call' = PolledCall(p)

\* a call with outcome p changes the state
PollChanges(p) ==
    \/ p.inner # inner
    \/ p.r # last
    \/ p.r.t # "pending"
    \/ PolledCall(p) # call

\* one call of Decoder::poll_next
Poll ==
    /\ CanPoll
    /\ Polled(poll_next(inner, avail, 0))
    /\ UNCHANGED <<headers, headers0, check_gzip, input, avail, ctor, start>>

Next == Detect \/ Empty \/ Arrive \/ Poll

\* every body, under a gzip and a plain response
Init == InitWith(SampleHeaders, {TRUE}, Bodies)

Spec == Init /\ [][Next]_vars

\* bodies without transport errors: the empty one and the well-formed ones,
\* however chunked
LiveBodies == UNION {Chunkings(w) : w \in {<<>>} \cup ValidWires}

InitLive == InitWith(SampleHeaders, {TRUE}, LiveBodies)

\* the enabling condition of <<Poll>>_vars, as a state predicate
PollEnabled == CanPoll /\ PollChanges(poll_next(inner, avail, 0))

\* the transport keeps delivering and the consumer keeps polling: every item
\* is eventually delivered (weak fairness of Arrive), and the task is woken
\* and polls again after a not-ready result (weak fairness of Poll, written
\* out with its enabling condition)
SpecLive ==
    /\ InitLive
    /\ [][Next]_vars
    /\ WF_vars(Arrive)
    /\ ([]<>(~PollEnabled) \/ []<><<Poll>>_vars)

\* every header set and flag, over an empty and a one-chunk body
InitDetect == InitWith(AllHeaders, BOOLEAN, SampleBodies)

SpecDetect == InitDetect /\ [][Next]_vars

(* ---------------------- the claims about detect ------------------------ *)
\* some Content-Encoding value of h equals "gzip"
HasGzipCE(h) == \E i \in DOMAIN h[CONTENT_ENCODING] : h[CONTENT_ENCODING][i] = "gzip"

\* some Transfer-Encoding value of h equals "gzip"
HasGzipTE(h) == \E i \in DOMAIN h[TRANSFER_ENCODING] : h[TRANSFER_ENCODING][i] = "gzip"

\* the Content-Length of h (its first value, as HeaderMap::get reads it) is "0"
LengthIsZero(h) == Len(h[CONTENT_LENGTH]) > 0 /\ h[CONTENT_LENGTH][1] = "0"

Stripped(h) == h[CONTENT_ENCODING] = <<>> /\ h[CONTENT_LENGTH] = <<>>

\* the decoder is the PlainText variant over the body handed to detect
PlainOverInput ==
    /\ start = "PlainText"
    /\ inner.tag = "PlainText"
    /\ inner.body.kind = "wire"
    /\ inner.body.items = input

Detected == ctor = "detect" /\ check_gzip

\* C1: with detection enabled, a Content-Encoding value "gzip" and a
\* Content-Length that is absent or not "0", detect builds the decoder in
\* the Pending (resolving) variant and the headers it leaves hold neither
\* Content-Encoding nor Content-Length.
C1_GzipSelectedAndStripped ==
    (Detected /\ HasGzipCE(headers0) /\ ~LengthIsZero(headers0))
        => (start = "Pending" /\ Stripped(headers))

C1_Witness ==
    /\ Detected
    /\ HasGzipCE(headers0)
    /\ headers0[CONTENT_LENGTH] = <<"120">>
    /\ start = "Pending"

\* C2: with a Content-Encoding value "gzip" and Content-Length "0", detect
\* builds a PlainText decoder over the given body, and still removes
\* Content-Encoding and Content-Length.
C2_ZeroLengthPlainButStripped ==
    (Detected /\ HasGzipCE(headers0) /\ LengthIsZero(headers0))
        => (PlainOverInput /\ Stripped(headers))

C2_Witness ==
    /\ Detected
    /\ HasGzipCE(headers0)
    /\ LengthIsZero(headers0)
    /\ start = "PlainText"

\* C3 as stated: with Transfer-Encoding: gzip and no Content-Encoding
\* header, whatever else is present, detect selects decompression and
\* leaves the headers unchanged.
C3_Original ==
    (Detected /\ HasGzipTE(headers0) /\ headers0[CONTENT_ENCODING] = <<>>)
        => (start = "Pending" /\ headers = headers0)

\* C3 amended: with Transfer-Encoding: gzip and no Content-Encoding header,
\* detect leaves the headers unchanged, and selects decompression exactly
\* when Content-Length is absent or not "0" (with Content-Length "0" it
\* builds PlainText over the given body).
C3_TransferGzipHeadersKept ==
    (Detected /\ HasGzipTE(headers0) /\ headers0[CONTENT_ENCODING] = <<>>)
        => /\ headers = headers0
           /\ IF LengthIsZero(headers0) THEN PlainOverInput ELSE start = "Pending"

C3_Witness ==
    /\ Detected
    /\ HasGzipTE(headers0)
    /\ headers0[CONTENT_ENCODING] = <<>>
    /\ headers0[CONTENT_LENGTH] = <<"120">>
    /\ start = "Pending"
    /\ headers = headers0

\* C4 as stated: whenever detect selects decompression, the headers it
\* leaves hold neither Content-Encoding nor Content-Length.
C4_Original == (ctor = "detect" /\ start = "Pending") => Stripped(headers)

\* C4 amended: whenever detect selects decompression and some
\* Content-Encoding value equals "gzip", the headers it leaves hold neither
\* Content-Encoding nor Content-Length; when it selects decompression on
\* Transfer-Encoding: gzip alone, it leaves every header as it was.
C4_SelectedStripsOnContentEncoding ==
    (ctor = "detect" /\ start = "Pending")
        => IF HasGzipCE(headers0)
           THEN /\ Stripped(headers)
                /\ \A n \in HeaderNames \ {CONTENT_ENCODING, CONTENT_LENGTH} :
                       headers[n] = headers0[n]
           ELSE headers = headers0

C4_Witness ==
    /\ ctor = "detect"
    /\ start = "Pending"
    /\ HasGzipCE(headers0)
    /\ headers0[CONTENT_LENGTH] # <<>>
    /\ Stripped(headers)

\* C5: with detection disabled, detect builds a PlainText decoder over the
\* given body and leaves the headers exactly as they were, whatever they are.
C5_DisabledLeavesAll ==
    (ctor = "detect" /\ ~check_gzip) => (PlainOverInput /\ headers = headers0)

C5_Witness ==
    /\ ctor = "detect"
    /\ ~check_gzip
    /\ HasGzipCE(headers0)
    /\ inner.tag = "PlainText"

(* ---------------------- the claims about the stream -------------------- *)
\* the result poll_next owes for a body item
ItemRes(item) == IF item.t = "data" THEN DataR(item.b) ELSE ErrR(TransportErr)

\* what a pass-through of the body yields: its items, then end-of-stream
Expected(items) == [i \in 1..Len(items) |-> ItemRes(items[i])] \o <<NoneR>>

\* the bytes of the data chunks of a sequence of items or results
RECURSIVE BytesOf(_)
BytesOf(items) ==
    IF items = <<>> THEN <<>>
    ELSE BytesOf(SubSeq(items, 1, Len(items) - 1))
         \o (IF items[Len(items)].t = "data" THEN items[Len(items)].b ELSE <<>>)

AllData(items) == \A i \in DOMAIN items : items[i].t = "data"

Kinds(o) == {o[i].t : i \in DOMAIN o}

\* detect built the decoder in the resolving variant
Selected == ctor = "detect" /\ start = "Pending"

\* C6: a decoder detect built as PlainText yields exactly the body's items,
\* in order, then end-of-stream: what it has yielded so far is the image of
\* the items it has taken from the body, and not-ready results add nothing.
C6_PlainTextPassThrough ==
    (ctor = "detect" /\ start = "PlainText")
        => /\ inner.tag = "PlainText"
           /\ IsPrefix(out, Expected(input))
           /\ Len(out) = inner.body.pos + (IF last.t = "none" THEN 1 ELSE 0)
           /\ last.t \in {"init", "pending"} \/ last = out[Len(out)]
           /\ last.t = "none" => out = Expected(input)

C6_Witness ==
    /\ ctor = "detect"
    /\ start = "PlainText"
    /\ Len(input) >= 2
    /\ \E i \in DOMAIN input : input[i].t = "err"
    /\ \E i \in DOMAIN input : input[i].t = "data" /\ input[i].b # <<>>
    /\ out = Expected(input)

\* C7: with decompression selected and a body whose first event is
\* end-of-stream, the decoder never becomes Gzip; it yields nothing until it
\* resolves to PlainText over the empty body, and then exactly one
\* end-of-stream: no data item, no error item.
C7_EmptyBodyResolvesPlain ==
    (Selected /\ input = <<>>)
        => /\ inner.tag \in {"Pending", "PlainText"}
           /\ inner.tag = "Pending" => (out = <<>> /\ last.t \in {"init", "pending"})
           /\ inner.tag = "PlainText" =>
                  (out = <<NoneR>> /\ last = NoneR /\ inner.body = Body_empty)

C7_Witness ==
    /\ Selected
    /\ input = <<>>
    /\ inner.tag = "PlainText"
    /\ out = <<NoneR>>

\* the message a well-formed body carries
MsgOf(w) == CHOOSE m \in Msgs : Compress(m) = w

\* C8: with decompression selected and a body that is the compressed form of
\* a message, cut into chunks in any way and delivered at any pace, the
\* decoder yields no error, the bytes of the data items it has yielded are a
\* prefix of the message, and when it reports end-of-stream they are the
\* whole message.
C8_RoundTrip ==
    (Selected /\ AllData(input) /\ BytesOf(input) \in ValidWires)
        => /\ Kinds(out) \subseteq {"data", "none"}
           /\ last.t \in {"init", "pending", "data", "none"}
           /\ IsPrefix(BytesOf(out), MsgOf(BytesOf(input)))
           /\ \A i \in DOMAIN out : out[i].t = "none" => i = Len(out)
           /\ last.t = "none" => BytesOf(out) = MsgOf(BytesOf(input))

C8_Witness ==
    /\ Selected
    /\ AllData(input)
    /\ Len(input) >= 2
    /\ BytesOf(input) = Compress(<<1, 2>>)
    /\ Len(out) = 3
    /\ BytesOf(out) = <<1, 2>>
    /\ last.t = "none"

\* how many leading bytes of w are still the start of some well-formed body
ValidPrefixLen(w) ==
    CHOOSE k \in 0..Len(w) :
        /\ \E m \in Msgs : IsPrefix(SubSeq(w, 1, k), Compress(m))
        /\ \A j \in (k + 1)..Len(w) :
               ~\E m \in Msgs : IsPrefix(SubSeq(w, 1, j), Compress(m))

\* the message bytes that the first k bytes of w encode
DecodablePrefixes(w, k) ==
    {SubSeq(m, 1, Min(Len(m), Max(0, k - 2))) :
        m \in {x \in Msgs : IsPrefix(SubSeq(w, 1, k), Compress(x))}}

\* the body bytes the decompressor has been handed
BytesTaken ==
    Len(BytesOf(SubSeq(input, 1, inner.pk.body.pos - Len(inner.pk.peeked))))

DecodeErrs ==
    {ErrR([ty |-> "Error", kind |-> "decode", detail |-> d]) :
        d \in {"InvalidData", "UnexpectedEof"}}

\* C9: with decompression selected and a body whose bytes are not a
\* well-formed compressed stream (a byte replaced, or the stream cut short),
\* the decoder never reports a clean end-of-stream; the data it yields
\* decodes only bytes before the first byte at which the stream stops being
\* well formed; and once the decompressor has been handed that byte (or the
\* early end), the decoder has yielded one error item, of its own error
\* type with the decompressor's cause, as the last item.
C9_MalformedYieldsError ==
    (Selected /\ AllData(input) /\ BytesOf(input) # <<>>
        /\ BytesOf(input) \notin ValidWires)
        => /\ Kinds(out) \subseteq {"data", "err"}
           /\ \A i \in DOMAIN out :
                  out[i].t = "err" => (i = Len(out) /\ out[i] \in DecodeErrs)
           /\ \E d \in DecodablePrefixes(BytesOf(input), ValidPrefixLen(BytesOf(input))) :
                  IsPrefix(BytesOf(out), d)
           /\ (inner.tag = "Gzip"
                 /\ (BytesTaken > ValidPrefixLen(BytesOf(input)) \/ inner.pk.done))
                  => (out # <<>> /\ out[Len(out)].t = "err" /\ last = out[Len(out)])

C9_Witness ==
    /\ Selected
    /\ AllData(input)
    /\ Len(input) >= 2
    /\ BytesOf(input) = Subst(Compress(<<1, 2>>), 4, BadByte)
    /\ Len(out) = 2
    /\ out[1] = DataR(<<1>>)
    /\ out[2].t = "err"

BodyNotReady(b, av) ==
    /\ b.kind = "wire"
    /\ IF b.pos < Len(b.items) THEN av <= b.pos ELSE av <= Len(b.items)

\* C11: once a decoder exists, no step takes it out of PlainText or out of
\* Gzip, and no step takes it into Pending: the variant changes only from
\* Pending to PlainText or to Gzip.
C11_VariantOnlyResolves ==
    [][ctor # "none" =>
          /\ inner'.tag \in {"Pending", "PlainText", "Gzip"}
          /\ inner.tag = "PlainText" => inner'.tag = "PlainText"
          /\ inner.tag = "Gzip" => inner'.tag = "Gzip"
          /\ inner'.tag = "Pending" => inner.tag = "Pending"]_vars

C11_Witness ==
    /\ Selected
    /\ call.from = "Gzip"
    /\ inner.tag = "Gzip"
    /\ Len(out) >= 2

\* C12: the poll_next call in which the resolver completes stores the new
\* variant (PlainText or Gzip), re-dispatches once and returns what polling
\* the new variant returns: not ready only if the decompressor found the
\* body not ready, end-of-stream only if the body had ended (PlainText over
\* the empty body) or the decompressor had finished.
C12_ResolveFallsThrough ==
    [][(inner.tag = "Pending" /\ inner'.tag # "Pending") =>
          /\ inner'.tag \in {"PlainText", "Gzip"}
          /\ call'.from = "Pending" /\ call'.hops = 1
          /\ Pending_poll(inner.pk, avail).r = "ok"
          /\ last' = poll_next(Pending_poll(inner.pk, avail).inner, avail, 0).r
          /\ last'.t = "pending" =>
                 (inner'.tag = "Gzip" /\ BodyNotReady(inner'.pk.body, avail))
          /\ last'.t = "none" =>
                 \/ inner'.tag = "PlainText" /\ inner'.body = Body_empty
                      /\ avail > Len(input) /\ inner.pk.body.pos = Len(input)
                 \/ inner'.tag = "Gzip" /\ inner'.gz.phase = "done"]_vars

C12_Witness ==
    /\ Selected
    /\ call.from = "Pending"
    /\ call.hops = 1
    /\ inner.tag = "Gzip"
    /\ out = <<last>>
    /\ last.t = "data"

\* the decompressor fed, from its initial state, the bytes of the data
\* chunks among the first n items of the body
FedUpTo(n) == Feed(GzNew, BytesOf(SubSeq(input, 1, n)), <<>>)

\* C13: in the Gzip variant the decompressor has read exactly the items the
\* body has handed out, in order, the peeked one first and once: the peeked
\* slot is empty, the call that resolved took at least the peeked item, and
\* while it has not failed the decompressor's state and the bytes yielded
\* are those of feeding it the bytes of the items taken so far, in order.
C13_PeekedItemReadOnce ==
    (Selected /\ inner.tag = "Gzip")
        => /\ inner.pk.peeked = <<>>
           /\ inner.pk.body.kind = "wire" /\ inner.pk.body.items = input
           /\ inner.pk.body.pos >= 1
           /\ call.from = "Pending" => call.took >= 1
           /\ inner.gz.phase # "failed" =>
                  /\ FedUpTo(inner.pk.body.pos).ok
                  /\ FedUpTo(inner.pk.body.pos).gz = inner.gz
                  /\ FedUpTo(inner.pk.body.pos).out = BytesOf(out)
           /\ inner.gz.phase = "failed" =>
                  (~FedUpTo(inner.pk.body.pos).ok \/ inner.pk.done)

C13_Witness ==
    /\ Selected
    /\ inner.tag = "Gzip"
    /\ call.from = "Pending"
    /\ call.took = 1
    /\ Len(input) = 2
    /\ inner.pk.body.pos = 1
    /\ inner.gz.phase = "deflate"
    /\ out = <<DataR(<<1>>)>>

\* C14, as stated: whenever the decoder is in the Gzip variant the body
\* carries at least one byte. (Violated: a body whose first item is a
\* zero-length chunk is peeked as Some(Ok(_)) and a decompressor is built.)
C14_Original ==
    (Selected /\ inner.tag = "Gzip") => BytesOf(input) # <<>>

\* the decoder's error for a failure of the transport
TransportDecodeErr == ErrR([ty |-> "Error", kind |-> "decode", detail |-> "transport"])

\* the body's next item has been delivered and is an error
NextIsErr ==
    /\ inner.pk.peeked = <<>>
    /\ inner.pk.body.pos < Min(avail, Len(input))
    /\ input[inner.pk.body.pos + 1].t = "err"

\* C15: a poll_next call on a resolving decoder whose next body item is a
\* delivered error takes exactly that item from the body, leaves nothing in
\* the peeked slot, yields the error as one error item of the decoder's
\* error type in that call, without re-dispatch, and leaves the variant
\* Pending.
C15_PeekErrorYielded ==
    [][(ctor # "none" /\ avail' = avail /\ inner.tag = "Pending" /\ NextIsErr) =>
          /\ inner'.tag = "Pending"
          /\ inner'.pk = [inner.pk EXCEPT !.body.pos = @ + 1]
          /\ last' = TransportDecodeErr
          /\ out' = Append(out, TransportDecodeErr)
          /\ call'.took = 1
          /\ call'.hops = 0]_vars

C15_Witness ==
    /\ Selected
    /\ inner.tag = "Pending"
    /\ call.from = "Pending"
    /\ call.took = 1
    /\ out = <<TransportDecodeErr>>
    /\ last = TransportDecodeErr

\* the body a decoder reads
TheBody(in) == IF in.tag = "PlainText" THEN in.body ELSE in.pk.body

C17_Terminates ==
    (/\ ctor = "detect"
     /\ AllData(input)
     /\ \/ start = "PlainText"
        \/ start = "Pending" /\ input = <<>>
        \/ start = "Pending" /\ BytesOf(input) \in ValidWires)
        ~> (last.t = "none")

C17_Witness ==
    /\ Selected
    /\ Len(input) = 2
    /\ BytesOf(input) = Compress(<<1, 2>>)
    /\ call.from = "Gzip"
    /\ last.t = "none"
    /\ out = <<DataR(<<1>>), DataR(<<2>>), NoneR>>

\* C18: no call panics, and in every reachable resolving state in which
\* peek returns an error, the real poll that follows the peek is ready with
\* that same error item, so the resolver returns it (expect and unwrap_err
\* succeed) and does not suspend.
C18_ErrorExtractionSucceeds ==
    /\ last.t # "panic"
    /\ (ctor # "none" /\ inner.tag = "Pending" /\ peek(inner.pk, avail).r.t = "err")
        => /\ Peekable_poll_next(peek(inner.pk, avail).pk, avail).r
                = peek(inner.pk, avail).r
           /\ Pending_poll(inner.pk, avail).r = "err"
           /\ poll_next(inner, avail, 0).r = TransportDecodeErr

C18_Witness ==
    /\ Selected
    /\ Len(input) >= 2
    /\ input[1].t = "err"
    /\ inner.tag = "Pending"
    /\ inner.pk.body.pos = 1
    /\ call.av = 1
    /\ last = TransportDecodeErr

\* the events of the body the transport has delivered and the decoder has
\* not taken
NextDelivered == inner.pk.body.pos < Min(avail, Len(input))

EndDelivered == inner.pk.body.pos = Len(input) /\ avail > Len(input)

\* C19: after a call that found the decoder resolving and yielded the
\* resolver's error, the variant is still Pending, the call took exactly
\* the one error item, the items taken so far are the errors yielded so far,
\* nothing is left in the peeked slot, the decoder may be polled again, and
\* the next call resolves: to Gzip when the following item is a delivered
\* data chunk, to PlainText (reporting end-of-stream) when the end of the
\* body has been delivered.
C19_ResolverErrorNotTerminal ==
    (Selected /\ call.from = "Pending" /\ call.hops = 0 /\ last.t = "err")
        => /\ inner.tag = "Pending"
           /\ call.took = 1
           /\ inner.pk.peeked = <<>> /\ ~inner.pk.done
           /\ inner.pk.body.items = input
           /\ inner.pk.body.pos = Len(out)
           /\ \A i \in DOMAIN out : out[i] = TransportDecodeErr /\ input[i].t = "err"
           /\ CanPoll
           /\ (NextDelivered /\ input[inner.pk.body.pos + 1].t = "data")
                  => poll_next(inner, avail, 0).inner.tag = "Gzip"
           /\ EndDelivered
                  => /\ poll_next(inner, avail, 0).inner.tag = "PlainText"
                     /\ poll_next(inner, avail, 0).r = NoneR

C19_Witness ==
    /\ Selected
    /\ Len(out) = 2
    /\ out[1] = TransportDecodeErr
    /\ out[2] = DataR(<<1>>)
    /\ inner.tag = "Gzip"
    /\ call.from = "Pending"
    /\ call.hops = 1

\* C20: in every reachable resolving state the resolver, when it completes,
\* completes with PlainText or Gzip and otherwise leaves the variant
\* Pending; and every call re-dispatched at most once: once if it found
\* Pending and resolved, not at all otherwise.
C20_ResolverNeverPending ==
    /\ (ctor # "none" /\ inner.tag = "Pending")
        => /\ Pending_poll(inner.pk, avail).r = "ok"
                  => Pending_poll(inner.pk, avail).inner.tag \in {"PlainText", "Gzip"}
           /\ Pending_poll(inner.pk, avail).r # "ok"
                  => Pending_poll(inner.pk, avail).inner.tag = "Pending"
           /\ poll_next(inner, avail, 0).hops
                  = IF Pending_poll(inner.pk, avail).r = "ok" THEN 1 ELSE 0
    /\ call.hops <= 1
    /\ call.hops = 1 => (call.from = "Pending" /\ inner.tag # "Pending")
    /\ call.from \in {"PlainText", "Gzip"} => call.hops = 0

C20_Witness ==
    /\ Selected
    /\ call.from = "Pending"
    /\ call.hops = 1
    /\ inner.tag = "PlainText"
    /\ Len(input) = 1
    /\ input[1].t = "err"
    /\ out = <<TransportDecodeErr, NoneR>>

====
